---- MODULE Spec2Model ----
(***************************************************************************)
(* Model of MCPRegistry.py: the MCPClient class (HTTP and stdio            *)
(* transports) and the registry file functions load_saved_servers /        *)
(* save_servers, as driven by one caller at a time.                        *)
(***************************************************************************)
EXTENDS Integers, Sequences, FiniteSets, TLC

\* ------------------------------------------------------------------ bounds
\* Total number of subprocesses the environment lets the callers spawn.
MaxProc == 3

\* ------------------------------------------------------------ Python values
\* Optional[str]: None is the empty tuple, a string s is <<s>>; a str is a
\* sequence of characters.
None == <<>>
Some(s) == <<s>>
IsNone(o) == o = <<>>
\* Python truthiness of an Optional[str]: None and "" are falsy.
Truthy(o) == o # <<>> /\ o[1] # <<>>

\* A Python value json handles here: a str (s: its characters) or a dict
\* with str keys (o: its items <<key, value>> in insertion order).
JStr(s) == [t |-> "str", s |-> s, o |-> <<>>]
JObj(items) == [t |-> "obj", s |-> <<>>, o |-> items]
EmptyDict == JObj(<<>>)

RECURSIVE rstrip(_)
\* str.rstrip("/")
rstrip(s) ==
  IF s = <<>> THEN s
  ELSE IF s[Len(s)] = "/" THEN rstrip(SubSeq(s, 1, Len(s) - 1)) ELSE s

\* str.endswith(suffix)
endswith(s, suffix) ==
  /\ Len(s) >= Len(suffix)
  /\ SubSeq(s, Len(s) - Len(suffix) + 1, Len(s)) = suffix

\* ---------------------------------------------------------------- inputs
Protocols == {"http", "stdio", "ftp"}
ServerUrls == {None, Some(<<>>), Some(<<"h">>), Some(<<"h", "/">>), Some(<<"h", "/", "/">>)}
Commands == {None, Some(<<"u", "v">>)}
Programs == {None, Some(<<"/", "s">>)}
ScriptPaths == {<<"s", ".", "p", "y">>, <<"s", ".", "j", "s">>, <<"s", ".", "s", "h">>}

\* What the environment does to one HTTP request.
HttpOutcomes ==
  {"ok", "ok_no_tools", "unreachable", "network_error", "non2xx", "bad_json",
   "bad_json_legacy"}
\* What the environment does to one stdio open-and-list sequence.
StdioOutcomes == {"ok", "launch_fail", "init_fail", "list_fail"}

\* ----------------------------------------------------------------- state
VARIABLES
  protocol,      \* self.protocol ("none": no client constructed yet)
  server_url,    \* self.server_url (Optional[str]; None also when unset)
  command,       \* self.command
  server_params, \* self.server_params (None when the attribute is unset)
  session,       \* self.session: 0 is None, else the id of a ClientSession
  stdio,         \* self.stdio / self.write: 0 is unset, else a transport id
  exit_stack,    \* self.exit_stack: the contexts entered, oldest first
  alive,         \* ids of the subprocesses that are running
  initialized,   \* ids of the sessions whose initialize() completed
  listSent,      \* ids of the sessions a list_tools request was sent over
  nextId,        \* id of the next subprocess / session
  lastOp,        \* the operation the caller ran last
  lastOutcome,   \* what the environment did to it
  raised,        \* the exception that reached the caller ("none")
  result,        \* the value returned to the caller
  reported,      \* st.error was called by the last operation
  cleaned,       \* cleanup() has been called on the current client
  launchedNow,   \* the last operation spawned a subprocess
  file,          \* mcp_servers.json: None when missing, else <<text>>
  openable,      \* open() of the file succeeds
  fileKind,      \* how the file got its content
  saved_servers, \* st.session_state.saved_servers
  lastSaved,     \* the mapping handed to the last save_servers call
  saveOk         \* what the last save_servers call returned

clientVars == <<protocol, server_url, command, server_params, session, stdio,
                exit_stack, alive, initialized, listSent, nextId, cleaned,
                launchedNow>>
callVars == <<lastOp, lastOutcome, raised, result, reported>>
regVars == <<file, openable, fileKind, saved_servers, lastSaved, saveOk>>
vars == <<clientVars, callVars, regVars>>


\* ------------------------------------------------- MCPClient.__init__
\* StdioServerParameters(command="uv", args=["run", "OneMCPServer.py"], env=None)
StdioServerParameters ==
  [command |-> <<"u", "v">>, args |-> <<"run", "OneMCPServer.py">>, env |-> None]

\* The exception __init__ raises for its arguments ("none": it returns).
ConstructorRaises(p, url, cmd, prog) ==
  IF p = "http" THEN "none"
  ELSE IF p = "stdio" THEN "none"
  ELSE "ValueError"

\* server_url.rstrip("/") if server_url else None
NormalizedUrl(url) == IF Truthy(url) THEN Some(rstrip(url[1])) ELSE None

Construct(p, url, cmd, prog) ==
  /\ lastOp' = "construct"
  /\ lastOutcome' = "none"
  /\ raised' = ConstructorRaises(p, url, cmd, prog)
  /\ result' = "None"
  /\ reported' = FALSE
  /\ launchedNow' = FALSE
  /\ IF ConstructorRaises(p, url, cmd, prog) # "none"
       THEN \* the half-built object is dropped; the caller keeps what it had
            UNCHANGED <<protocol, server_url, command, server_params, session,
                        stdio, exit_stack, cleaned>>
       ELSE /\ protocol' = p
            /\ session' = 0
            /\ stdio' = 0
            /\ exit_stack' = <<>>
            /\ cleaned' = FALSE
            /\ server_url' = IF p = "http" THEN NormalizedUrl(url) ELSE None
            /\ command' = IF p = "stdio" THEN cmd ELSE None
            /\ server_params' = IF p = "stdio" THEN Some(StdioServerParameters) ELSE None
  /\ UNCHANGED <<alive, initialized, listSent, nextId>>
  /\ UNCHANGED regVars

\* ------------------------------------------------------- HTTP requests
\* requests.get on f"{self.server_url}/..." with server_url None has no scheme.
EffectiveOutcome(url, outcome) == IF IsNone(url) THEN "invalid_url" ELSE outcome

\* The exception requests.get / raise_for_status / response.json() raises.
HttpException(outcome) ==
  CASE outcome = "unreachable" -> "requests.ConnectionError"
    [] outcome = "network_error" -> "requests.Timeout"
    [] outcome = "non2xx" -> "requests.HTTPError"
    [] outcome = "invalid_url" -> "requests.MissingSchema"
    [] outcome = "bad_json" -> "requests.JSONDecodeError"
    [] outcome = "bad_json_legacy" -> "json.JSONDecodeError"
    [] OTHER -> "none"

\* The subclasses of requests.RequestException.
RequestException ==
  {"requests.ConnectionError", "requests.Timeout", "requests.HTTPError",
   "requests.MissingSchema", "requests.JSONDecodeError"}

\* Mutant of Caught: except requests.ConnectionError (an HTTPError escapes).
Caught_OnlyConnectionError(e) == e = "requests.ConnectionError"

\* except requests.RequestException as e
Caught(e) == e \in RequestException

\* The HTTP branch of get_server_info / list_tools: `ok` is what the call
\* returns from a good response, `empty` what its except clause returns.
HttpCall(op, outcome, ok, empty) ==
  LET eff == EffectiveOutcome(server_url, outcome)
      e == HttpException(eff)
  IN /\ lastOp' = op
     /\ lastOutcome' = eff
     /\ raised' = IF e # "none" /\ ~Caught(e) THEN e ELSE "none"
     /\ reported' = (e # "none" /\ Caught(e))
     /\ result' = IF e = "none" THEN ok
                  ELSE IF Caught(e) THEN empty ELSE "None"
     /\ launchedNow' = FALSE
     /\ UNCHANGED <<protocol, server_url, command, server_params, session, stdio,
                    exit_stack, alive, initialized, listSent, nextId, cleaned>>

\* ------------------------------------------------- stdio open and list
\* stdio_client(self.server_params) spawned the subprocess.
Spawned(outcome) == outcome # "launch_fail"
\* await self.session.initialize() returned.
InitializeDone(outcome) == outcome \notin {"launch_fail", "init_fail"}
\* Mutant of ListRequestSent: a failed initialize() is swallowed and the
\* request goes out all the same.
ListRequestSent_Ungated(outcome) == Spawned(outcome)

\* await self.session.list_tools() is reached, so the request is sent.
ListRequestSent(outcome) == InitializeDone(outcome)
\* The exception the sequence lets through to the caller.
StdioRaised(outcome) ==
  CASE outcome = "launch_fail" -> "OSError"
    [] outcome = "init_fail" -> "McpError"
    [] outcome = "list_fail" -> "McpError"
    [] OTHER -> "none"

\* enter stdio_client, assign stdio/write, enter ClientSession, assign
\* session, initialize, list_tools: the lines connect_to_server and
\* list_tools share.
OpenAndList(outcome) ==
  LET id == nextId IN
  /\ nextId <= MaxProc
  /\ launchedNow' = Spawned(outcome)
  /\ nextId' = IF Spawned(outcome) THEN nextId + 1 ELSE nextId
  /\ alive' = IF Spawned(outcome) THEN alive \cup {id} ELSE alive
  /\ exit_stack' = IF Spawned(outcome)
                     THEN exit_stack \o <<[kind |-> "stdio_client", id |-> id],
                                          [kind |-> "ClientSession", id |-> id]>>
                     ELSE exit_stack
  /\ stdio' = IF Spawned(outcome) THEN id ELSE stdio
  /\ session' = IF Spawned(outcome) THEN id ELSE session
  /\ initialized' = IF InitializeDone(outcome) THEN initialized \cup {id} ELSE initialized
  /\ listSent' = IF ListRequestSent(outcome) THEN listSent \cup {session'} ELSE listSent
  /\ raised' = StdioRaised(outcome)
  /\ lastOutcome' = outcome
  /\ reported' = FALSE
  /\ UNCHANGED <<protocol, server_url, command, server_params, cleaned>>

\* ------------------------------------------------ MCPClient operations
GetServerInfo(outcome) ==
  /\ protocol # "none"
  /\ IF protocol = "http"
       THEN HttpCall("get_server_info", outcome, "server_info_json", "empty_dict")
       ELSE /\ lastOp' = "get_server_info"
            /\ lastOutcome' = "none"
            /\ raised' = "none"
            /\ reported' = FALSE
            /\ result' = "action_server_info"
            /\ launchedNow' = FALSE
            /\ UNCHANGED <<protocol, server_url, command, server_params, session,
                           stdio, exit_stack, alive, initialized, listSent, nextId,
                           cleaned>>
  /\ UNCHANGED regVars

\* response.json().get("tools", [])
ToolsOf(outcome) == IF outcome = "ok_no_tools" THEN "empty_list" ELSE "tools_json"

ListToolsHttp(outcome) ==
  /\ protocol = "http"
  /\ outcome \in HttpOutcomes
  /\ HttpCall("list_tools", outcome, ToolsOf(outcome), "empty_list")
  /\ UNCHANGED regVars

ListToolsStdio(outcome) ==
  /\ protocol = "stdio"
  /\ outcome \in StdioOutcomes
  /\ OpenAndList(outcome)
  /\ lastOp' = "list_tools"
  /\ result' = IF outcome = "ok" THEN "tools_result" ELSE "None"
  /\ UNCHANGED regVars

ConnectToServer(path, outcome) ==
  /\ protocol # "none"
  /\ lastOp' = "connect_to_server"
  /\ IF ~(endswith(path, <<".", "p", "y">>) \/ endswith(path, <<".", "j", "s">>))
       THEN /\ raised' = "ValueError"
            /\ result' = "None"
            /\ lastOutcome' = "none"
            /\ reported' = FALSE
            /\ launchedNow' = FALSE
            /\ UNCHANGED <<protocol, server_url, command, server_params, session,
                           stdio, exit_stack, alive, initialized, listSent, nextId,
                           cleaned>>
       ELSE IF IsNone(server_params)
       THEN \* an http client has no server_params attribute
            /\ raised' = "AttributeError"
            /\ result' = "None"
            /\ lastOutcome' = "none"
            /\ reported' = FALSE
            /\ launchedNow' = FALSE
            /\ UNCHANGED <<protocol, server_url, command, server_params, session,
                           stdio, exit_stack, alive, initialized, listSent, nextId,
                           cleaned>>
       ELSE /\ OpenAndList(outcome)
            \* return self.get_server_info()
            /\ result' = IF outcome = "ok" THEN "action_server_info" ELSE "None"
  /\ UNCHANGED regVars

\* client.cleanup(): MCPClient defines no cleanup, so the attribute lookup
\* raises before anything is released.
Cleanup ==
  /\ protocol # "none"
  /\ lastOp' = "cleanup"
  /\ lastOutcome' = "none"
  /\ raised' = "AttributeError"
  /\ result' = "None"
  /\ reported' = FALSE
  /\ launchedNow' = FALSE
  /\ cleaned' = TRUE
  /\ UNCHANGED <<protocol, server_url, command, server_params, session, stdio,
                 exit_stack, alive, initialized, listSent, nextId>>
  /\ UNCHANGED regVars

\* The subprocess of transport i exits on its own.
ProcessExit(i) ==
  /\ i \in alive
  /\ alive' = alive \ {i}
  /\ lastOp' = "process_exit"
  /\ launchedNow' = FALSE
  /\ UNCHANGED <<protocol, server_url, command, server_params, session, stdio,
                 exit_stack, initialized, listSent, nextId, cleaned>>
  /\ UNCHANGED <<lastOutcome, raised, result, reported>>
  /\ UNCHANGED regVars

\* ------------------------------------------------------ specifications
InitClient ==
  /\ protocol = "none"
  /\ server_url = None
  /\ command = None
  /\ server_params = None
  /\ session = 0
  /\ stdio = 0
  /\ exit_stack = <<>>
  /\ alive = {}
  /\ initialized = {}
  /\ listSent = {}
  /\ nextId = 1
  /\ cleaned = FALSE
  /\ launchedNow = FALSE
  /\ lastOp = "none"
  /\ lastOutcome = "none"
  /\ raised = "none"
  /\ result = "None"
  /\ reported = FALSE

InitRegistryIdle ==
  /\ file = None
  /\ openable = TRUE
  /\ fileKind = "missing"
  /\ saved_servers = EmptyDict
  /\ lastSaved = EmptyDict
  /\ saveOk = FALSE

Init == InitClient /\ InitRegistryIdle

Next ==
  \/ \E p \in Protocols, url \in ServerUrls, cmd \in Commands, prog \in Programs :
       Construct(p, url, cmd, prog)
  \/ \E o \in HttpOutcomes : GetServerInfo(o)
  \/ \E o \in HttpOutcomes : ListToolsHttp(o)
  \/ \E o \in StdioOutcomes : ListToolsStdio(o)
  \/ \E path \in ScriptPaths, o \in StdioOutcomes : ConnectToServer(path, o)
  \/ Cleanup
  \/ \E i \in 1..MaxProc : ProcessExit(i)

Spec == Init /\ [][Next]_vars


\* ------------------------------------------------- MCPClient properties
\* The subprocesses the current client's exit stack owns.
Owned == {exit_stack[k].id : k \in 1..Len(exit_stack)}
\* The stdio transports (subprocess plus streams) the current client holds open.
OpenTransports == {k \in 1..Len(exit_stack) : exit_stack[k].kind = "stdio_client"}
\* The protocol sessions the current client holds open.
OpenSessions == {k \in 1..Len(exit_stack) : exit_stack[k].kind = "ClientSession"}
\* Every context of the exit stack was exited: processes ended, streams closed.
Released == exit_stack = <<>> /\ Owned \cap alive = {}
StdioOps == {"list_tools", "connect_to_server"}

\* C1: cleanup() completes without raising, whatever the client's protocol
\* and state, and however often it is called.
CleanupNeverRaises == lastOp = "cleanup" => raised = "none"

\* C2: over any sequence of calls on one stdio client the subprocess is
\* launched at most once and at most one stdio session is open at a time.
AtMostOneStdioSession ==
  protocol = "stdio" =>
    Cardinality(OpenTransports) <= 1 /\ Cardinality(OpenSessions) <= 1

\* C3: when the launch or the initialize handshake of a stdio operation
\* fails, the caller gets an error, cleanup has run, and nothing the attempt
\* opened (subprocess, streams, session) is left open.
StdioFailureTearsDown ==
  (protocol = "stdio" /\ lastOp \in StdioOps
     /\ lastOutcome \in {"launch_fail", "init_fail"})
    => raised # "none" /\ Released

\* C4: after cleanup() the stdio session is closed: the subprocess is
\* terminated and both streams are closed, together.
CleanupReleases ==
  (protocol = "stdio" /\ lastOp = "cleanup") => Released

\* C5: a list_tools request is only ever sent over a session whose
\* initialize exchange has completed.
InitializeBeforeListTools == \A s \in listSent : s \in initialized

\* C5 witness: a list_tools request went out on one session after the
\* handshake of an earlier session of the same client had failed.
InitializeBeforeListToolsWitness ==
  /\ protocol = "stdio"
  /\ lastOp \in StdioOps
  /\ session \in listSent
  /\ \E k \in 1..Len(exit_stack) : exit_stack[k].id \notin initialized

\* C6: a client constructed without the parameters of its protocol (http
\* without server_url, stdio without command) does not come into being: the
\* constructor raises.
ConstructorRejectsBadConfig ==
  (lastOp = "construct" /\ raised = "none") =>
    /\ protocol = "http" => Truthy(server_url)
    /\ protocol = "stdio" => Truthy(command)

\* The ways the claim's HTTP request fails.
RequestFailures == {"unreachable", "network_error", "non2xx"}

\* C7: when the HTTP request of get_server_info / list_tools fails, the
\* call returns its empty result, reports the error and raises nothing.
HttpFailureIsContained ==
  (protocol = "http" /\ lastOp \in {"get_server_info", "list_tools"}
     /\ lastOutcome \in RequestFailures)
    => /\ raised = "none"
       /\ reported
       /\ result = IF lastOp = "get_server_info" THEN "empty_dict" ELSE "empty_list"

\* C7 witness: list_tools over HTTP got a non-2xx status and returned [].
HttpFailureIsContainedWitness ==
  /\ protocol = "http"
  /\ lastOp = "list_tools"
  /\ lastOutcome = "non2xx"
  /\ result = "empty_list"
  /\ reported

\* The stdio session has been closed: cleanup() was called on the client,
\* or a subprocess it owns has exited.
Closed == cleaned \/ Owned \ alive # {}

\* C10: once the stdio session is closed, connect_to_server / list_tools
\* fail with NotConnected and launch nothing.
ClosedIsTerminal ==
  (protocol = "stdio" /\ lastOp \in StdioOps /\ lastOutcome # "none" /\ Closed)
    => raised = "NotConnected" /\ ~launchedNow


\* ---------------------------------------------------------- JSON values

\* d[k] = v on the items of a dict: an existing key keeps its place.
DictSet(items, k, v) ==
  IF \E n \in 1..Len(items) : items[n][1] = k
    THEN [n \in 1..Len(items) |-> IF items[n][1] = k THEN <<k, v>> ELSE items[n]]
    ELSE Append(items, <<k, v>>)

\* del d[k] for the key of item n.
DictDel(items, n) == SubSeq(items, 1, n - 1) \o SubSeq(items, n + 1, Len(items))

\* ----------------------------------------- json.dump(servers, f, indent=2)
RECURSIVE Spaces(_)
Spaces(n) == IF n = 0 THEN <<>> ELSE <<" ">> \o Spaces(n - 1)
\* The newline and indentation json writes before an item at `level`.
NewlineIndent(level) == <<"\n">> \o Spaces(2 * level)

\* Mutant of EscapeChar: the backslash is written as it is.
EscapeChar_RawBackslash(c) ==
  IF c = "\"" THEN <<"\\", "\"">> ELSE <<c>>

\* What json writes for one character of a str.
EscapeChar(c) ==
  IF c = "\"" THEN <<"\\", "\"">>
  ELSE IF c = "\\" THEN <<"\\", "\\">>
  ELSE IF c = "\n" THEN <<"\\", "n">>
  ELSE <<c>>

RECURSIVE Escape(_)
Escape(s) == IF s = <<>> THEN <<>> ELSE EscapeChar(Head(s)) \o Escape(Tail(s))

EncodeStr(s) == <<"\"">> \o Escape(s) \o <<"\"">>

RECURSIVE Encode(_, _)
RECURSIVE EncodeItems(_, _, _)
\* The text of value v, itself placed at nesting `level`.
Encode(v, level) ==
  IF v.t = "str" THEN EncodeStr(v.s)
  ELSE IF v.o = <<>> THEN <<"{", "}">>
  ELSE <<"{">> \o EncodeItems(v.o, 1, level + 1) \o NewlineIndent(level) \o <<"}">>
\* Items n.. of a dict, each on its own line, separated by ",".
EncodeItems(items, n, level) ==
  IF n > Len(items) THEN <<>>
  ELSE NewlineIndent(level) \o EncodeStr(items[n][1]) \o <<":", " ">>
         \o Encode(items[n][2], level)
         \o (IF n < Len(items) THEN <<",">> ELSE <<>>)
         \o EncodeItems(items, n + 1, level)

dumps(v) == Encode(v, 0)

\* ------------------------------------------------------- json.load(f)
Whitespace == {" ", "\n", "\t", "\r"}
ParseFail == [ok |-> FALSE, v |-> EmptyDict, i |-> 0]
ParseOk(v, i) == [ok |-> TRUE, v |-> v, i |-> i]

RECURSIVE SkipWs(_, _)
SkipWs(t, i) == IF i <= Len(t) /\ t[i] \in Whitespace THEN SkipWs(t, i + 1) ELSE i

\* The character an escape \c stands for (<<>>: not an escape).
Unescape(c) ==
  IF c \in {"\"", "\\", "/"} THEN <<c>>
  ELSE IF c = "n" THEN <<"\n">>
  ELSE IF c = "t" THEN <<"\t">>
  ELSE IF c = "r" THEN <<"\r">>
  ELSE <<>>

RECURSIVE ScanString(_, _, _)
\* The str whose opening quote was just passed; i is the next character.
ScanString(t, i, acc) ==
  IF i > Len(t) THEN ParseFail
  ELSE IF t[i] = "\"" THEN ParseOk(JStr(acc), i + 1)
  ELSE IF t[i] = "\\"
    THEN IF i + 1 > Len(t) \/ Unescape(t[i + 1]) = <<>> THEN ParseFail
         ELSE ScanString(t, i + 2, acc \o Unescape(t[i + 1]))
  ELSE IF t[i] \in {"\n", "\t", "\r"} THEN ParseFail
  ELSE ScanString(t, i + 1, Append(acc, t[i]))

RECURSIVE ScanValue(_, _)
RECURSIVE ScanObject(_, _, _)
\* The value starting at character i (whitespace already skipped).
ScanValue(t, i) ==
  IF i > Len(t) THEN ParseFail
  ELSE IF t[i] = "\"" THEN ScanString(t, i + 1, <<>>)
  ELSE IF t[i] = "{"
    THEN LET j == SkipWs(t, i + 1)
         IN IF j <= Len(t) /\ t[j] = "}" THEN ParseOk(EmptyDict, j + 1)
            ELSE ScanObject(t, j, <<>>)
  ELSE ParseFail
\* The items of an object from the key at i on; acc holds the items so far.
ScanObject(t, i, acc) ==
  IF i > Len(t) \/ t[i] # "\"" THEN ParseFail
  ELSE LET k == ScanString(t, i + 1, <<>>)
       IN IF ~k.ok THEN ParseFail
          ELSE LET c == SkipWs(t, k.i)
               IN IF c > Len(t) \/ t[c] # ":" THEN ParseFail
                  ELSE LET v == ScanValue(t, SkipWs(t, c + 1))
                       IN IF ~v.ok THEN ParseFail
                          ELSE LET e == SkipWs(t, v.i)
                                   items == DictSet(acc, k.v.s, v.v)
                               IN IF e > Len(t) THEN ParseFail
                                  ELSE IF t[e] = "}" THEN ParseOk(JObj(items), e + 1)
                                  ELSE IF t[e] = ","
                                    THEN ScanObject(t, SkipWs(t, e + 1), items)
                                  ELSE ParseFail

\* json.loads: one value, then nothing but whitespace.
loads(t) ==
  LET r == ScanValue(t, SkipWs(t, 1))
  IN IF r.ok /\ SkipWs(t, r.i) = Len(t) + 1 THEN r ELSE ParseFail


\* ---------------------------------------------------- load_saved_servers
\* What the try block does: the exception it raises and the value it returns.
LoadAttempt(f, canOpen) ==
  IF IsNone(f) THEN [exc |-> "none", v |-> EmptyDict]          \* not os.path.exists
  ELSE IF ~canOpen THEN [exc |-> "PermissionError", v |-> EmptyDict]
  ELSE LET r == loads(f[1])
       IN IF r.ok THEN [exc |-> "none", v |-> r.v]
          ELSE [exc |-> "JSONDecodeError", v |-> EmptyDict]

\* Mutant of LoadCatches: except OSError (a JSONDecodeError escapes).
LoadCatches_OnlyOSError(e) == e = "PermissionError"

\* except Exception as e
LoadCatches(e) == e # "none"

load_saved_servers(f, canOpen) ==
  LET a == LoadAttempt(f, canOpen)
  IN IF a.exc = "none" THEN [ret |-> a.v, raised |-> "none", reported |-> FALSE]
     ELSE IF LoadCatches(a.exc)
       THEN [ret |-> EmptyDict, raised |-> "none", reported |-> TRUE]
     ELSE [ret |-> EmptyDict, raised |-> a.exc, reported |-> FALSE]

\* ---------------------------------------------------------- save_servers
SaveOutcomes == {"ok", "open_fail", "write_fail"}

\* What is on disk when the write stops early: open(..., "w") has emptied
\* the file and a prefix of the text was written.
Truncated(text) == SubSeq(text, 1, Len(text) \div 2)

\* save_servers(servers) under what the environment does to the write.
save_servers(servers, outcome) ==
  LET eff == IF openable THEN outcome ELSE "open_fail"
  IN /\ saveOk' = (eff = "ok")
     /\ reported' = (eff # "ok")
     /\ raised' = "none"
     /\ file' = IF eff = "ok" THEN Some(dumps(servers))
                ELSE IF eff = "open_fail" THEN file
                ELSE Some(Truncated(dumps(servers)))
     /\ fileKind' = IF eff = "ok" THEN "saved"
                    ELSE IF eff = "open_fail" THEN fileKind
                    ELSE "truncated"
     /\ lastSaved' = IF eff = "ok" THEN servers
                     ELSE IF eff = "open_fail" THEN lastSaved
                     ELSE EmptyDict
     /\ UNCHANGED openable

\* ------------------------------------------------------ main: registry
FormNames == {<<>>, <<"a">>, <<"\"", "\\">>}
FormUrls == {<<>>, <<"h", "/">>}
FormCommands == {<<>>, <<"r", "\\">>}
FormPrograms == {<<>>, <<"/", "s">>}

\* str.lower() on the letters the protocol radio offers.
LowerChar(c) ==
  IF c = "H" THEN "h" ELSE IF c = "T" THEN "t" ELSE IF c = "P" THEN "p" ELSE c
lower(s) == [n \in 1..Len(s) |-> LowerChar(s[n])]

Key_protocol == <<"p", "r", "o", "t", "o", "c", "o", "l">>
Key_url == <<"u", "r", "l">>
Key_command == <<"c", "o", "m", "m", "a", "n", "d">>
Key_program == <<"p", "r", "o", "g", "r", "a", "m">>
HTTP == <<"H", "T", "T", "P">>
STDIO == <<"s", "t", "d", "i", "o">>

\* What the form holds when it is submitted: the URL field exists for HTTP
\* only, the command and program fields for stdio only.
FormSubmissions ==
  {[name |-> n, new_protocol |-> HTTP, url |-> u, cmd |-> <<>>, prog |-> <<>>] :
     n \in FormNames, u \in FormUrls}
  \cup {[name |-> nc[1], new_protocol |-> STDIO, url |-> <<>>, cmd |-> nc[2], prog |-> g] :
     nc \in FormNames \X FormCommands, g \in FormPrograms}

\* server_data of the add-server form.
ServerData(new_protocol, url, cmd, prog) ==
  JObj(<<<<Key_protocol, JStr(lower(new_protocol))>>>>
       \o (IF new_protocol = HTTP
             THEN <<<<Key_url, JStr(url)>>>>
             ELSE <<<<Key_command, JStr(cmd)>>, <<Key_program, JStr(prog)>>>>))

\* The form's checks before it adds anything.
FormValid(name, new_protocol, url, cmd, prog) ==
  /\ name # <<>>
  /\ new_protocol = HTTP => url # <<>>
  /\ new_protocol # HTTP => cmd # <<>> /\ prog # <<>>

\* The session starts: st.session_state.saved_servers = load_saved_servers()
LoadSaved ==
  LET r == load_saved_servers(file, openable)
  IN /\ lastOp' = "load"
     /\ saved_servers' = r.ret
     /\ raised' = r.raised
     /\ reported' = r.reported
     /\ UNCHANGED <<file, openable, fileKind, lastSaved, saveOk>>
     /\ UNCHANGED <<lastOutcome, result>>
     /\ UNCHANGED clientVars

\* "Add Server" submitted.
AddServer(name, new_protocol, url, cmd, prog, outcome) ==
  /\ lastOp' = "add"
  /\ IF FormValid(name, new_protocol, url, cmd, prog)
       THEN /\ saved_servers' =
                 JObj(DictSet(saved_servers.o, name,
                              ServerData(new_protocol, url, cmd, prog)))
            /\ save_servers(saved_servers', outcome)
       ELSE /\ raised' = "none"
            /\ reported' = FALSE
            /\ UNCHANGED regVars
  /\ UNCHANGED <<lastOutcome, result>>
  /\ UNCHANGED clientVars

\* "Delete" pressed on row n.
DeleteServer(n, outcome) ==
  /\ n \in 1..Len(saved_servers.o)
  /\ lastOp' = "delete"
  /\ saved_servers' = JObj(DictDel(saved_servers.o, n))
  /\ save_servers(saved_servers', outcome)
  /\ UNCHANGED <<lastOutcome, result>>
  /\ UNCHANGED clientVars

\* ------------------------------------------- the file's environment
\* Texts that are not JSON: nothing at all, an object cut short, an escape json does not
\* know, text after the value, a bare word.
Garbage ==
  {<<>>,
   <<"{", "\"", "a", "\"">>,
   <<"{", "\"", "a", "\"", ":", "\"", "\\", "x", "\"", "}">>,
   <<"{", "}", "}">>,
   <<"x">>}

EnvChange ==
  /\ lastOp' = "env"
  /\ UNCHANGED <<saved_servers, saveOk, raised, reported, lastOutcome, result>>
  /\ UNCHANGED clientVars

\* Something else overwrites the file.
ExternalWrite(text) ==
  /\ file' = Some(text)
  /\ fileKind' = "corrupt"
  /\ lastSaved' = EmptyDict
  /\ UNCHANGED openable
  /\ EnvChange

RemoveFile ==
  /\ ~IsNone(file)
  /\ file' = None
  /\ fileKind' = "missing"
  /\ lastSaved' = EmptyDict
  /\ openable' = TRUE
  /\ EnvChange

\* The file's permissions change.
SetOpenable ==
  /\ ~IsNone(file)
  /\ openable' = ~openable
  /\ UNCHANGED <<file, fileKind, lastSaved>>
  /\ EnvChange

NextRegistry ==
  \/ LoadSaved
  \/ \E f \in FormSubmissions, o \in SaveOutcomes :
       AddServer(f.name, f.new_protocol, f.url, f.cmd, f.prog, o)
  \/ \E n \in 1..Len(saved_servers.o), o \in SaveOutcomes : DeleteServer(n, o)
  \/ \E text \in Garbage : ExternalWrite(text)
  \/ RemoveFile
  \/ SetOpenable

SpecRegistry == Init /\ [][NextRegistry]_vars

\* ----------------------------------------------------- registry properties
\* C8: load_saved_servers returns {} and raises nothing when the file is
\* missing, cannot be opened, or does not hold valid JSON.
LoadOfBadFileIsEmpty ==
  (lastOp = "load"
     /\ (fileKind \in {"missing", "truncated", "corrupt"} \/ ~openable))
    => saved_servers = EmptyDict /\ raised = "none"

\* C8 witness: the load of a file holding text that is not JSON returned {}.
LoadOfBadFileIsEmptyWitness ==
  /\ lastOp = "load"
  /\ fileKind \in {"truncated", "corrupt"}
  /\ openable
  /\ saved_servers = EmptyDict
  /\ reported

\* C9: a load that follows a successful save of m returns exactly m.
SaveLoadRoundTrip ==
  (lastOp = "load" /\ fileKind = "saved" /\ openable)
    => saved_servers = lastSaved /\ raised = "none"

\* C9 witness: a registry of two servers, one of them with a quote and a
\* backslash in its name, came back from the file that save wrote.
SaveLoadRoundTripWitness ==
  /\ lastOp = "load"
  /\ fileKind = "saved"
  /\ openable
  /\ Len(saved_servers.o) = 2
  /\ \E n \in 1..2 : saved_servers.o[n][1] = <<"\"", "\\">>
  /\ saved_servers = lastSaved

====
